---- MODULE Spec2Model ----
(***************************************************************************)
(* check_paloalto2.py, the Throughput check: main() builds one Throughput  *)
(* resource per interface, each probe takes a timestamp, fetches the       *)
(* interface counters from the appliance, differences them against the     *)
(* triple kept in the shared nagiosplugin.Cookie state file and returns    *)
(* two rate metrics; check.main() evaluates them and exits.                *)
(*                                                                         *)
(* Several invocations (processes) run on one monitoring machine and share *)
(* the state file.  Counters and timestamps are modelled as integers       *)
(* (float() is exact on them below 2^53); a rate is kept in hundredths of  *)
(* a bit per second, which is what round(x, 2) leaves.                     *)
(***************************************************************************)
EXTENDS Integers, Sequences, FiniteSets, TLC

\* ---------------------------------------------------------------- bounds
MaxRuns == 3
MaxTicks == 3

Procs == {1, 2}
StartTime == 100
TickLength == 10

\* ------------------------------------------------------- plugin statuses
Ok == 0
Warn == 1
Critical == 2
Unknown == 3

\* text of an <ibytes>/<obytes> element that is missing or empty
NoneText == -1

\* ------------------------------------------------------------------ inputs
\* The command lines tried: -H host -it prefix -I interfaces -w warning -c critical.
\* A RANGE is modelled by its end value, <<>> standing for the default ''.
CommandLines ==
    { [host |-> "fw1", interfacetype |-> "eth", interface |-> <<"1">>,
       warning |-> <<>>, critical |-> <<>>],
      [host |-> "fw1", interfacetype |-> "eth", interface |-> <<"1", "2">>,
       warning |-> <<300>>, critical |-> <<600>>],
      [host |-> "fw2", interfacetype |-> "eth", interface |-> <<"1">>,
       warning |-> <<>>, critical |-> <<>>],
      [host |-> "fw1", interfacetype |-> "tun", interface |-> <<"1">>,
       warning |-> <<300>>, critical |-> <<600>>],
      [host |-> "fw1", interfacetype |-> "vlan", interface |-> <<"1">>,
       warning |-> <<>>, critical |-> <<>>],
      [host |-> "fw1", interfacetype |-> "eth", interface |-> <<>>,
       warning |-> <<>>, critical |-> <<>>] }

\* What the appliance may answer: <<ibytes, obytes>>.
Samples ==
    { <<1000, 2000>>, <<2000, 2500>>, <<5000, 2500>>, <<4000, 2500>>,
      <<5000, 2000>>, <<NoneText, 2000>>, <<1000, NoneText>> }

ConcurrentCommandLines ==
    { [host |-> "fw1", interfacetype |-> "eth", interface |-> <<"1">>,
       warning |-> <<300>>, critical |-> <<600>>] }

ConcurrentSamples == { <<1000, 2000>>, <<2000, 2500>>, <<1000, 2500>> }

NoArgs == [host |-> "", interfacetype |-> "", interface |-> <<>>,
           warning |-> <<>>, critical |-> <<>>]
EmptyDict == [k \in {} |-> 0]

VARIABLES
    now,          \* the machine's clock, time.time()
    runs,         \* invocations started so far
    statefile,    \* the committed content of Throughput.statefile (a dict)
    writer,       \* id -> host of the invocation that committed the id last
    lock,         \* the process holding the flock on the state file, 0 if none
    pc,           \* where each process stands
    args,         \* its command line
    idx,          \* the resource (interface) being probed
    currentTime,  \* probe's currentTime
    api,          \* probe's <<api_inbytes, api_outbytes>>
    cookie,       \* the dict of the open Cookie
    old,          \* <<old_inbytes, old_outbytes, old_time>>
    first,        \* whether the cookie held no entry of the id when read
    rates,        \* <<diff_inbit, diff_outbit>> in hundredths, <<>> if none
    results,      \* the states of the metrics evaluated so far
    stdout,       \* the lines printed
    exitcode,     \* the exit code, -1 while running
    outcome       \* how the invocation ended

vars == <<now, runs, statefile, writer, lock, pc, args, idx, currentTime,
          api, cookie, old, first, rates, results, stdout, exitcode, outcome>>

shared == <<now, statefile, writer, lock>>

\* ------------------------------------------------------------ pure parts
Abs(x) == IF x < 0 THEN 0 - x ELSE x

\* cookie.get(key, default)
Get(d, key, default) == IF key \in DOMAIN d THEN d[key] ELSE default

\* cookie[key] = value
Put(d, key, value) == (key :> value) @@ d

\* n / d rounded to the nearest integer, ties to even (Python's round)
RoundHalfEven(n, d) ==
    LET q == n \div d
        r == n % d
    IN  IF 2 * r < d THEN q
        ELSE IF 2 * r > d THEN q + 1
        ELSE IF q % 2 = 0 THEN q ELSE q + 1

\* bytes per second: the factor 8 forgotten
RateTimes8Missing(new, prev, diff_time) ==
    LET n == (new - prev) * 100
        s == IF (n < 0) # (diff_time < 0) THEN 0 - 1 ELSE 1
    IN  s * RoundHalfEven(Abs(n), Abs(diff_time))

\* round(((float(new) - float(prev)) / diff_time) * 8, 2), in hundredths
Rate(new, prev, diff_time) ==
    LET n == (new - prev) * 8 * 100
        s == IF (n < 0) # (diff_time < 0) THEN 0 - 1 ELSE 1
    IN  s * RoundHalfEven(Abs(n), Abs(diff_time))

\* a guard against the division by zero only
IntervalNotZero(diff_time) == diff_time # 0

\* if diff_time > 0
IntervalOk(diff_time) == diff_time > 0

\* nagiosplugin.Range(spec).match(value), value in hundredths
Match(range, value) ==
    /\ 0 <= value
    /\ (range = <<>> \/ value <= range[1] * 100)

\* ScalarContext(name, warning, critical).evaluate(metric)
Evaluate(a, value) ==
    IF ~Match(a.critical, value) THEN Critical
    ELSE IF ~Match(a.warning, value) THEN Warn
    ELSE Ok

RECURSIVE Worst(_)
\* the check's state: the most significant state of its results
Worst(rs) ==
    IF rs = <<>> THEN Ok
    ELSE LET w == Worst(Tail(rs)) IN IF Head(rs) > w THEN Head(rs) ELSE w

\* id = self.prefix + str(self.interface)
Id(p) == args[p].interfacetype \o args[p].interface[idx[p]]

ValidText(x) == x # NoneText

\* ----------------------------------------------------------------- state
Init ==
    /\ now = StartTime
    /\ runs = 0
    /\ statefile = EmptyDict
    /\ writer = EmptyDict
    /\ lock = 0
    /\ pc = [p \in Procs |-> "idle"]
    /\ args = [p \in Procs |-> NoArgs]
    /\ idx = [p \in Procs |-> 0]
    /\ currentTime = [p \in Procs |-> 0]
    /\ api = [p \in Procs |-> <<0, 0>>]
    /\ cookie = [p \in Procs |-> EmptyDict]
    /\ old = [p \in Procs |-> <<0, 0, 0>>]
    /\ first = [p \in Procs |-> FALSE]
    /\ rates = [p \in Procs |-> <<>>]
    /\ results = [p \in Procs |-> <<>>]
    /\ stdout = [p \in Procs |-> <<>>]
    /\ exitcode = [p \in Procs |-> 0 - 1]
    /\ outcome = [p \in Procs |-> "running"]

\* the process ends: the lines it printed, its exit code
Exit(p, code, lines, how) ==
    /\ pc' = [pc EXCEPT ![p] = "done"]
    /\ exitcode' = [exitcode EXCEPT ![p] = code]
    /\ stdout' = [stdout EXCEPT ![p] = @ \o lines]
    /\ outcome' = [outcome EXCEPT ![p] = how]

Running(p, next) ==
    /\ pc' = [pc EXCEPT ![p] = next]
    /\ UNCHANGED <<exitcode, stdout, outcome>>

\* an exception reported as CRITICAL
guarded_critical(p, how) == Exit(p, Critical, <<"UNKNOWN: " \o how>>, how)

\* @nagiosplugin.guarded: an exception leaving main() prints one UNKNOWN line, exit 3
guarded(p, how) == Exit(p, Unknown, <<"UNKNOWN: " \o how>>, how)

\* time passes on the monitoring machine
Tick ==
    /\ now < StartTime + MaxTicks * TickLength
    /\ now' = now + TickLength
    /\ UNCHANGED <<runs, statefile, writer, lock, pc, args, idx, currentTime, api,
                   cookie, old, first, rates, results, stdout, exitcode, outcome>>

\* main(): a new invocation; without -I the help is printed and the exit code is 0
Start(p, commands) ==
    /\ pc[p] \in {"idle", "done"}
    /\ runs < MaxRuns
    /\ runs' = runs + 1
    /\ \E a \in commands :
        /\ args' = [args EXCEPT ![p] = a]
        /\ pc' = [pc EXCEPT ![p] = IF a.interface = <<>> THEN "done" ELSE "probe"]
        /\ stdout' = [stdout EXCEPT ![p] = IF a.interface = <<>> THEN <<"usage", "options">> ELSE <<>>]
        /\ exitcode' = [exitcode EXCEPT ![p] = IF a.interface = <<>> THEN 0 ELSE 0 - 1]
        /\ outcome' = [outcome EXCEPT ![p] = IF a.interface = <<>> THEN "help" ELSE "running"]
        /\ idx' = [idx EXCEPT ![p] = IF a.interface = <<>> THEN 0 ELSE 1]
    /\ currentTime' = [currentTime EXCEPT ![p] = 0]
    /\ api' = [api EXCEPT ![p] = <<0, 0>>]
    /\ cookie' = [cookie EXCEPT ![p] = EmptyDict]
    /\ old' = [old EXCEPT ![p] = <<0, 0, 0>>]
    /\ first' = [first EXCEPT ![p] = FALSE]
    /\ rates' = [rates EXCEPT ![p] = <<>>]
    /\ results' = [results EXCEPT ![p] = <<>>]
    /\ UNCHANGED shared

\* probe(): id, currentTime and the command; an unknown prefix prints and exits 3
ProbeStart(p) ==
    /\ pc[p] = "probe"
    /\ currentTime' = [currentTime EXCEPT ![p] = now]
    /\ IF args[p].interfacetype \in {"eth", "tun"}
       THEN Running(p, "fetch")
       ELSE Exit(p, Unknown, <<"Unknown prefix!">>, "UnknownPrefix")
    /\ UNCHANGED <<runs, args, idx, api, cookie, old, first, rates, results>>
    /\ UNCHANGED shared

\* urllib.request.urlopen answers: the last entry's ibytes and obytes
FetchOk(p, samples) ==
    /\ pc[p] = "fetch"
    /\ \E s \in samples : api' = [api EXCEPT ![p] = s]
    /\ Running(p, "cookie")
    /\ UNCHANGED <<runs, args, idx, currentTime, cookie, old, first, rates, results>>
    /\ UNCHANGED shared

\* urllib.request.urlopen raises (timeout, connection refused)
FetchFail(p) ==
    /\ pc[p] = "fetch"
    /\ guarded(p, "NetworkError")
    /\ UNCHANGED <<runs, args, idx, currentTime, api, cookie, old, first, rates, results>>
    /\ UNCHANGED shared

\* the lock is not taken (or not honoured): open never waits
NoFlock(p) == TRUE

\* flock_exclusive(fobj) in Cookie.open returns once no other process holds the lock
Flock(p) == lock = 0

\* with nagiosplugin.Cookie(self.statefile) as cookie: lock the file and load it
CookieEnter(p) ==
    /\ pc[p] = "cookie"
    /\ Flock(p)
    /\ lock' = p
    /\ cookie' = [cookie EXCEPT ![p] = statefile]
    /\ Running(p, "body")
    /\ UNCHANGED <<now, statefile, writer>>
    /\ UNCHANGED <<runs, args, idx, currentTime, api, old, first, rates, results>>

\* the check's timeout expires while the process waits for the lock: the Timeout
\* raised leaves main() through the guard
LockTimeout(p) ==
    /\ pc[p] = "cookie"
    /\ guarded(p, "Timeout")
    /\ UNCHANGED <<runs, args, idx, currentTime, api, cookie, old, first, rates, results>>
    /\ UNCHANGED shared

\* Cookie.__exit__ after an exception or sys.exit: close without commit
Abandon(p) ==
    /\ lock' = IF lock = p THEN 0 ELSE lock
    /\ UNCHANGED <<now, statefile, writer, cookie>>

\* Cookie.__exit__ without exception: commit the dict to the file, close
Commit(p, c) ==
    /\ statefile' = c
    /\ writer' = Put(writer, Id(p), args[p].host)
    /\ cookie' = [cookie EXCEPT ![p] = c]
    /\ lock' = IF lock = p THEN 0 ELSE lock
    /\ now' = now

\* the monotonicity check left out
RegressionUnchecked(new, prev) == FALSE

\* float(api_inbytes) < float(old_inbytes), and the same for outbytes
Regressed(new, prev) == new < prev

\* the body of the with block: read the previous triple, check, store the new one
CookieBody(p) ==
    /\ pc[p] = "body"
    /\ LET id == Id(p)
           old_inbytes == Get(cookie[p], id \o "i", api[p][1])
           old_outbytes == Get(cookie[p], id \o "o", api[p][2])
           old_time == Get(cookie[p], id \o "t", currentTime[p])
           stored == Put(Put(Put(cookie[p], id \o "i", api[p][1]),
                             id \o "o", api[p][2]), id \o "t", currentTime[p])
       IN  /\ old' = [old EXCEPT ![p] = <<old_inbytes, old_outbytes, old_time>>]
           /\ first' = [first EXCEPT ![p] = (id \o "i") \notin DOMAIN cookie[p]]
           /\ IF ~ValidText(api[p][1])
              THEN guarded(p, "InvalidSample") /\ Abandon(p)
              ELSE IF Regressed(api[p][1], old_inbytes)
              THEN /\ Exit(p, Unknown, <<"Couldn't get a valid input value!">>, "InRegression")
                   /\ Abandon(p)
              ELSE IF ~ValidText(api[p][2])
              THEN guarded(p, "InvalidSample") /\ Abandon(p)
              ELSE IF Regressed(api[p][2], old_outbytes)
              THEN /\ Exit(p, Unknown, <<"Couldn't get a valid output value!">>, "OutRegression")
                   /\ Abandon(p)
              ELSE Running(p, "compute") /\ Commit(p, stored)
    /\ UNCHANGED <<runs, args, idx, currentTime, api, rates, results>>

\* after the with block: diff_time and the two rates, or sys.exit(3) without a word
Compute(p) ==
    /\ pc[p] = "compute"
    /\ LET diff_time == currentTime[p] - old[p][3]
           diff_inbit == Rate(api[p][1], old[p][1], diff_time)
           diff_outbit == Rate(api[p][2], old[p][2], diff_time)
       IN  IF IntervalOk(diff_time)
           THEN /\ rates' = [rates EXCEPT ![p] = <<diff_inbit, diff_outbit>>]
                /\ Running(p, "returned")
           ELSE /\ Exit(p, Unknown, <<>>, "NonPositiveInterval")
                /\ UNCHANGED rates
    /\ UNCHANGED <<runs, args, idx, currentTime, api, cookie, old, first, results>>
    /\ UNCHANGED shared

\* the check evaluates the two metrics the probe returned against their contexts
\* and goes on to the next resource; the probe's locals are gone
EvaluateResource(p) ==
    /\ pc[p] = "returned"
    /\ results' = [results EXCEPT ![p] =
           @ \o <<Evaluate(args[p], rates[p][1]), Evaluate(args[p], rates[p][2])>>]
    /\ IF idx[p] < Len(args[p].interface)
       THEN /\ idx' = [idx EXCEPT ![p] = @ + 1]
            /\ Running(p, "probe")
            /\ currentTime' = [currentTime EXCEPT ![p] = 0]
            /\ api' = [api EXCEPT ![p] = <<0, 0>>]
            /\ cookie' = [cookie EXCEPT ![p] = EmptyDict]
            /\ old' = [old EXCEPT ![p] = <<0, 0, 0>>]
            /\ first' = [first EXCEPT ![p] = FALSE]
            /\ rates' = [rates EXCEPT ![p] = <<>>]
       ELSE /\ Running(p, "report")
            /\ UNCHANGED <<idx, currentTime, api, cookie, old, first, rates>>
    /\ UNCHANGED <<runs, args>>
    /\ UNCHANGED shared

\* check.main(): one status line with the perfdata, exit with the check's state
Report(p) ==
    /\ pc[p] = "report"
    /\ Exit(p, Worst(results[p]), <<"THROUGHPUT status">>, "Reported")
    /\ UNCHANGED <<runs, args, idx, currentTime, api, cookie, old, first, rates, results>>
    /\ UNCHANGED shared

\* the invocations of the processes P, with command lines C and appliance answers S
Step(P, C, S) ==
    \/ Tick
    \/ \E p \in P : Start(p, C)
    \/ \E p \in P : ProbeStart(p)
    \/ \E p \in P : FetchOk(p, S)
    \/ \E p \in P : FetchFail(p)
    \/ \E p \in P : CookieEnter(p)
    \/ \E p \in P : LockTimeout(p)
    \/ \E p \in P : CookieBody(p)
    \/ \E p \in P : Compute(p)
    \/ \E p \in P : EvaluateResource(p)
    \/ \E p \in P : Report(p)

\* one invocation after the other, as the scheduler runs them normally
Next == Step({1}, CommandLines, Samples)

Spec == Init /\ [][Next]_vars

\* overlapping invocations for one counter id (a slow appliance, two schedulers)
NextConcurrent == Step(Procs, ConcurrentCommandLines, ConcurrentSamples)

SpecConcurrent == Init /\ [][NextConcurrent]_vars

\* ---------------------------------------------------------------- claims
\* how an invocation ends once its probe has read the previous triple
ProbedOutcomes ==
    {"InvalidSample", "InRegression", "OutRegression", "NonPositiveInterval", "Reported"}

\* the probe of p has left the with block (or the process with it)
Finished(p) ==
    \/ pc[p] \in {"returned", "report"}
    \/ pc[p] = "done" /\ outcome[p] \in ProbedOutcomes

Interval(p) == currentTime[p] - old[p][3]

ValidSample(p) == ValidText(api[p][1]) /\ ValidText(api[p][2])

\* the state file holds, for the id of p, exactly the triple <<i, o, t>>
Stored(p, i, o, t) ==
    /\ {Id(p) \o "i", Id(p) \o "o", Id(p) \o "t"} \subseteq DOMAIN statefile
    /\ statefile[Id(p) \o "i"] = i
    /\ statefile[Id(p) \o "o"] = o
    /\ statefile[Id(p) \o "t"] = t

\* C1: the read of the previous triple and the write of the new one happen under
\* one exclusive lock: while an invocation is inside the with block it holds the
\* lock, no other invocation is inside, and the dict it read is the committed
\* content of the file (what the invocation before it committed), so no two
\* invocations read the same previous triple and both overwrite it.
C1_SerializedReadModifyWrite ==
    \A p \in Procs :
        pc[p] = "body" =>
            /\ lock = p
            /\ cookie[p] = statefile
            /\ \A q \in Procs \ {p} : pc[q] # "body"

\* an invocation that overlapped with another reads the triple the other committed
C1_Witness ==
    \E p \in Procs : \E q \in Procs \ {p} :
        /\ pc[p] = "body"
        /\ pc[q] = "compute"
        /\ currentTime[p] < currentTime[q]
        /\ (Id(p) \o "i") \in DOMAIN cookie[p]
        /\ cookie[p] = cookie[q]

\* C2 (as claimed): the first invocation for a counter id, with a valid sample,
\* yields the rate pair (0, 0) and leaves the sample in the store as baseline.
C2_FirstRunYieldsZeroRates ==
    \A p \in Procs :
        (Finished(p) /\ first[p] /\ ValidSample(p)) =>
            /\ rates[p] = <<0, 0>>
            /\ Stored(p, api[p][1], api[p][2], currentTime[p])

\* C3: a current in-bytes counter below the stored one (likewise out-bytes) ends
\* the invocation with the regression message and exit code 3, without rates,
\* and the three stored keys of the id keep their values.
C3_RegressionLeavesStore ==
    \A p \in Procs :
        LET inLower == ValidText(api[p][1]) /\ api[p][1] < old[p][1]
            outLower == /\ ValidSample(p)
                        /\ api[p][1] >= old[p][1]
                        /\ api[p][2] < old[p][2]
        IN  (Finished(p) /\ ~first[p] /\ (inLower \/ outLower)) =>
                /\ pc[p] = "done"
                /\ outcome[p] = (IF inLower THEN "InRegression" ELSE "OutRegression")
                /\ exitcode[p] = 3
                /\ rates[p] = <<>>
                /\ Len(results[p]) = 2 * (idx[p] - 1)
                /\ Stored(p, old[p][1], old[p][2], old[p][3])

\* the store holds in-bytes 5000 and the appliance, rebooted, answers 4000
C3_Witness ==
    \E p \in Procs :
        /\ pc[p] = "done"
        /\ outcome[p] = "InRegression"
        /\ api[p][1] = 4000
        /\ old[p][1] = 5000
        /\ statefile[Id(p) \o "i"] = 5000

\* r hundredths is num / den rounded to two decimals
RoundedTo2(r, num, den) == Abs(r * den - num * 100) * 2 <= den

\* C4: with a stored previous triple, counters not below it and a positive
\* interval, the probe returns (current - previous) * 8 / interval rounded to
\* two decimals for both directions and the current sample is the new baseline.
C4_RateFormula ==
    \A p \in Procs :
        (/\ Finished(p) /\ ~first[p] /\ ValidSample(p)
         /\ api[p][1] >= old[p][1] /\ api[p][2] >= old[p][2]
         /\ Interval(p) > 0) =>
            /\ rates[p] # <<>>
            /\ RoundedTo2(rates[p][1], (api[p][1] - old[p][1]) * 8, Interval(p))
            /\ RoundedTo2(rates[p][2], (api[p][2] - old[p][2]) * 8, Interval(p))
            /\ Stored(p, api[p][1], api[p][2], currentTime[p])

\* previous (1000, 2000, t=100), current (2000, 2500, t=110): 800 and 400 bits/sec
C4_Witness ==
    \E p \in Procs :
        /\ pc[p] = "returned"
        /\ old[p] = <<1000, 2000, 100>>
        /\ api[p] = <<2000, 2500>>
        /\ currentTime[p] = 110
        /\ rates[p] = <<80000, 40000>>

\* C5: an interval <= 0 between the current and the previous timestamp ends the
\* invocation with exit code 3 (as NonPositiveInterval unless a regression or an
\* invalid sample ended it before), and no rate is computed or returned.
C5_NonPositiveInterval ==
    \A p \in Procs :
        ((pc[p] = "compute" \/ Finished(p)) /\ Interval(p) <= 0) =>
            /\ rates[p] = <<>>
            /\ pc[p] \in {"compute", "done"}
            /\ pc[p] = "done" =>
                /\ exitcode[p] = 3
                /\ outcome[p] # "Reported"
                /\ Len(results[p]) = 2 * (idx[p] - 1)
                /\ (ValidSample(p) /\ api[p][1] >= old[p][1] /\ api[p][2] >= old[p][2])
                       => outcome[p] = "NonPositiveInterval"

\* a negative interval: the previous triple is newer than the probe's timestamp
C5_Witness ==
    \E p \in Procs :
        /\ pc[p] = "done"
        /\ outcome[p] = "NonPositiveInterval"
        /\ ~first[p]
        /\ Interval(p) < 0

\* the severity the claim gives a status: CRITICAL > WARNING > UNKNOWN > OK
Severity(st) == IF st = Critical THEN 3 ELSE IF st = Warn THEN 2 ELSE IF st = Unknown THEN 1 ELSE 0

MostSevere(sts) == CHOOSE st \in sts : \A other \in sts : Severity(other) <= Severity(st)

\* C6 (as claimed): the exit code is that of the most severe status among the
\* metrics of the invocation, a probe ended by a regression or a non-positive
\* interval counting as UNKNOWN: a metric evaluated CRITICAL or WARNING decides
\* the exit code even when a later interface's probe ends that way.
C6_WorstOfAllMetrics ==
    \A p \in Procs :
        (/\ pc[p] = "done" /\ results[p] # <<>>
         /\ outcome[p] \in {"Reported", "InRegression", "OutRegression", "NonPositiveInterval"}) =>
            exitcode[p] = MostSevere({results[p][i] : i \in 1..Len(results[p])}
                                     \cup (IF outcome[p] = "Reported" THEN {} ELSE {Unknown}))

\* C7 (as claimed): every invocation that runs a probe prints exactly one line.
C7_ExactlyOneLine ==
    \A p \in Procs :
        (pc[p] = "done" /\ outcome[p] # "help") => Len(stdout[p]) = 1

\* C8: a failed request ends the invocation at once with UNKNOWN, exit code 3,
\* one line; no metric of the probe is evaluated and the store is not touched.
C8_NetworkFailure ==
    [][\A p \in Procs :
          (pc[p] = "fetch" /\ outcome'[p] = "NetworkError") =>
              /\ pc'[p] = "done"
              /\ exitcode'[p] = 3
              /\ stdout'[p] = stdout[p] \o <<"UNKNOWN: NetworkError">>
              /\ results'[p] = results[p]
              /\ rates'[p] = <<>>
              /\ statefile' = statefile]_vars

\* the request fails while the store holds a baseline of the id
C8_Witness ==
    \E p \in Procs :
        /\ pc[p] = "done"
        /\ outcome[p] = "NetworkError"
        /\ exitcode[p] = 3
        /\ (Id(p) \o "i") \in DOMAIN statefile

\* C9 (as claimed): the previous triple a probe reads for an id was committed
\* by an invocation for the same host.
C9_BaselineOfSameHost ==
    \A p \in Procs :
        (pc[p] = "body" /\ (Id(p) \o "i") \in DOMAIN cookie[p]) =>
            writer[Id(p)] = args[p].host

\* C10 (as claimed): no committed write lowers a persisted counter or timestamp.
C10_PersistedNeverDecreases ==
    [][\A k \in DOMAIN statefile :
          k \in DOMAIN statefile' /\ statefile'[k] >= statefile[k]]_vars

====
